---------------------------- MODULE Spec2Model ----------------------------
(***************************************************************************)
(* Model of rpmrepo.py: the version codec (parse_ver_str), the archive     *)
(* header mapper (header_to_primary, header_to_filelists) and the          *)
(* reconciliation run (update_repo).                                       *)
(*                                                                         *)
(* Conventions.  A Python str is a tuple of one-character strings, so that *)
(* the regular expressions, slices and str()/float() conversions of the    *)
(* source act on characters.  Python None is the value None below, which   *)
(* no str equals.  A dict is a function; d[k] = v is Put(d, k, v).  A      *)
(* modification time is a count of ticks, TicksPerSecond ticks to the      *)
(* second, so that fractional timestamps exist.                            *)
(***************************************************************************)
EXTENDS Integers, Sequences, FiniteSets, TLC

VARIABLES
    \* ---- the storage backend, as update_repo sees it (never written) ----
    repo_exists,     \* storage.exists('repodata/repomd.xml')
    repo_primary,    \* the primary document of the storage, parsed
    repo_filelists,  \* the filelists document of the storage, parsed
    stor_files,      \* storage.files('.'): the set of listed paths
    stor_mtime,      \* storage.mtime(path), in ticks
    stor_content,    \* what is stored at each path
    \* ---- update_repo ----
    pc,              \* position of the run
    primary,         \* dict nerv -> primary record
    filelists,       \* dict nerv -> filelists record
    files_to_add,    \* the set computed by the Diff step
    pending,         \* elements of files_to_add the loop has not yet taken
    file_to_add,     \* the loop variable
    tmpdir,          \* the scratch directory of the current iteration
    scratch,         \* the scratch directories that exist on disk
    header,          \* the parsed header of the current archive
    sha256,          \* the checksum of the current archive
    nerv,            \* identity returned by header_to_primary
    prim,            \* record returned by header_to_primary
    flist,           \* record returned by header_to_filelists
    out,             \* the paths printed by "Adding: ..." so far
    download_log,    \* the paths passed to storage.download_file so far
    error,           \* the exception that ended the run, or NoError
    \* ---- parse_ver_str applied to an input ----
    ver_str, ver_out,
    \* ---- header_to_primary applied to an input header ----
    req_header, req_out

runVars == <<pc, primary, filelists, files_to_add, pending, file_to_add,
             tmpdir, scratch, header, sha256, nerv, prim, flist, out,
             download_log, error>>
storVars == <<repo_exists, repo_primary, repo_filelists, stor_files,
              stor_mtime, stor_content>>
verVars == <<ver_str, ver_out>>
reqVars == <<req_header, req_out>>
vars == <<storVars, runVars, verVars, reqVars>>

-----------------------------------------------------------------------------
(* Bounds of the model *)

\* ticks per second of a modification time
TicksPerSecond == 2
\* the longest version text given to parse_ver_str
MaxVerLen == 5
\* the longest REQUIRENAME / REQUIREVERSION / REQUIREFLAGS array
MaxReq == 2
\* the most paths the storage lists
MaxFiles == 2

-----------------------------------------------------------------------------
(* Python values *)

None == <<"None">>

Digit == <<"0", "1", "2", "3", "4", "5", "6", "7", "8", "9">>

IsDigit(c) == \E i \in 1..10 : Digit[i] = c

DigitValue(c) == (CHOOSE i \in 1..10 : Digit[i] = c) - 1

\* str(n) for an integer n >= 0
RECURSIVE IntToStr(_)
IntToStr(n) ==
    IF n < 10 THEN <<Digit[n + 1]>>
    ELSE Append(IntToStr(n \div 10), Digit[(n % 10) + 1])

\* the integer a string of decimal digits denotes
RECURSIVE StrToInt(_)
StrToInt(s) ==
    IF Len(s) = 0 THEN 0
    ELSE 10 * StrToInt(SubSeq(s, 1, Len(s) - 1)) + DigitValue(s[Len(s)])

\* int(mtime): the whole seconds of a timestamp (mtime >= 0)
IntOfTime(mtime) == mtime \div TicksPerSecond

\* float(s) of a decimal digit string, as a timestamp
FloatOfStr(s) == StrToInt(s) * TicksPerSecond

\* a & b on naturals
RECURSIVE BitAnd(_, _)
BitAnd(a, b) ==
    IF a = 0 \/ b = 0 THEN 0
    ELSE (a % 2) * (b % 2) + 2 * BitAnd(a \div 2, b \div 2)

\* d[k] = v
Put(d, k, v) == [x \in (DOMAIN d) \cup {k} |-> IF x = k THEN v ELSE d[x]]

\* header.get(tag, default)
Get(h, tag, default) == IF tag \in DOMAIN h THEN h[tag] ELSE default

Min(a, b) == IF a < b THEN a ELSE b

Raise(e) == [ok |-> FALSE, error |-> e]

\* the value of error while nothing was raised
NoError == "none"

-----------------------------------------------------------------------------
(* parse_ver_str *)

\* the length of the longest prefix of s made of digits: what \d+ takes
RECURSIVE DigitPrefix(_)
DigitPrefix(s) ==
    IF Len(s) > 0 /\ IsDigit(s[1]) THEN 1 + DigitPrefix(Tail(s)) ELSE 0

\* the length of the longest prefix of s without '-': what [^-]* takes
RECURSIVE NoDashPrefix(_)
NoDashPrefix(s) ==
    IF Len(s) > 0 /\ s[1] # "-" THEN 1 + NoDashPrefix(Tail(s)) ELSE 0

NoMatch == [matched |-> FALSE]

\* "([^-]*)-([^-]*)$" on s, the first class having taken a characters: a
\* '-' must follow, and the second class must reach the end of the text.
\* Both classes take line ends too, so '$' can only hold at the very end.
SplitAtDash(s, a) ==
    IF a < Len(s) /\ NoDashPrefix(SubSeq(s, a + 2, Len(s))) = Len(s) - a - 1
    THEN [matched |-> TRUE, g2 |-> SubSeq(s, 1, a),
          g3 |-> SubSeq(s, a + 2, Len(s))]
    ELSE NoMatch

\* re.match of "([^-]*)-([^-]*)$" at the start of s
MatchVerRel(s) == SplitAtDash(s, NoDashPrefix(s))

\* the match with the optional group (g1) when there is one, else the
\* match without it
FirstMatch(g1, withGroup, withoutGroup) ==
    IF withGroup.matched
    THEN [matched |-> TRUE, g1 |-> g1,
          g2 |-> withGroup.g2, g3 |-> withGroup.g3]
    ELSE IF withoutGroup.matched
    THEN [matched |-> TRUE, g1 |-> None,
          g2 |-> withoutGroup.g2, g3 |-> withoutGroup.g3]
    ELSE NoMatch

\* the match of s, \d+ having taken d characters
MatchVersionAt(s, d) ==
    FirstMatch(SubSeq(s, 1, d + 1),
               IF d >= 1 /\ d < Len(s) /\ s[d + 1] = ":"
               THEN MatchVerRel(SubSeq(s, d + 2, Len(s)))
               ELSE NoMatch,
               MatchVerRel(s))

\* re.match("^(\d+:)?([^-]*)-([^-]*)$", s): the optional group is tried
\* first, and left out when the rest does not match with it
MatchVersion(s) == MatchVersionAt(s, DigitPrefix(s))

\* VerTriple with the ':' left on the epoch
VerTriple_KeepColon(m) ==
    IF ~m.matched THEN Raise("RuntimeError")
    ELSE [ok |-> TRUE,
          epoch |-> IF m.g1 # None /\ m.g1 # <<>> THEN m.g1 ELSE <<"0">>,
          ver |-> m.g2,
          rel |-> m.g3]

\* what parse_ver_str makes of the match m
VerTriple(m) ==
    IF ~m.matched THEN Raise("RuntimeError")
    ELSE [ok |-> TRUE,
          epoch |-> IF m.g1 # None /\ m.g1 # <<>>
                    THEN SubSeq(m.g1, 1, Len(m.g1) - 1)
                    ELSE <<"0">>,
          ver |-> m.g2,
          rel |-> m.g3]

parse_ver_str(s) ==
    IF s = None \/ s = <<>>
    THEN [ok |-> TRUE, epoch |-> None, ver |-> None, rel |-> None]
    ELSE VerTriple(MatchVersion(s))

-----------------------------------------------------------------------------
(* rpmfile: the flag codec the mapper calls *)

\* the "internal (rpmlib) dependency" bit of a flags word
RPMSENSE_RPMLIB == 16777216

\* the comparison symbol of a flags word (bits LESS = 2, GREATER = 4, EQUAL = 8)
flags_to_str(bits) ==
    LET c == BitAnd(bits, 14)
    IN  IF c = 2 THEN <<"L", "T">>
        ELSE IF c = 4 THEN <<"G", "T">>
        ELSE IF c = 8 THEN <<"E", "Q">>
        ELSE IF c = 10 THEN <<"L", "E">>
        ELSE IF c = 12 THEN <<"G", "E">>
        ELSE <<>>

-----------------------------------------------------------------------------
(* header_to_primary and header_to_filelists *)

\* the mask of the "pre" marker
PREREQ_MASK == 4352

TypeFile == <<"f", "i", "l", "e">>
TypeDir == <<"d", "i", "r">>

\* zip(a, b, c): as long as the shortest
Zip3(a, b, c) ==
    [i \in 1..Min(Len(a), Min(Len(b), Len(c))) |-> <<a[i], b[i], c[i]>>]

\* zip(a, b)
Zip2(a, b) == [i \in 1..Min(Len(a), Len(b)) |-> <<a[i], b[i]>>]

\* the body of the provides loop (and of the obsoletes loop, which is the
\* same code) once the entry's version text is parsed to v: acc is the
\* dict so far, entry = (name, version, flags)
DepInsert(acc, entry, v) ==
    IF ~v.ok THEN v
    ELSE [ok |-> TRUE,
          dict |-> Put(acc, <<entry[1], v.epoch, v.rel, v.ver>>,
                       [name |-> entry[1], epoch |-> v.epoch,
                        rel |-> v.rel, ver |-> v.ver,
                        flags |-> flags_to_str(entry[3])])]

\* one iteration of the provides loop: v is parse_ver_str(entry[1])
DepEntry(acc, entry) ==
    CHOOSE r \in { DepInsert(acc, entry, v) : v \in {parse_ver_str(entry[2])} } :
        TRUE

\* RequiresInsert testing the pre mask where the rpmlib bit is meant
RequiresInsert_WrongMask(acc, entry, v) ==
    IF ~v.ok THEN v
    ELSE IF BitAnd(entry[3], PREREQ_MASK) # 0
    THEN [ok |-> TRUE, dict |-> acc]
    ELSE [ok |-> TRUE,
          dict |-> Put(acc, <<entry[1], v.epoch, v.rel, v.ver>>,
                       [name |-> entry[1], epoch |-> v.epoch,
                        rel |-> v.rel, ver |-> v.ver,
                        flags |-> flags_to_str(entry[3]),
                        pre |-> IF BitAnd(entry[3], PREREQ_MASK) # 0
                                THEN <<"1">> ELSE None])]

\* the body of the requires loop once the entry's version text is parsed
RequiresInsert(acc, entry, v) ==
    IF ~v.ok THEN v
    ELSE IF BitAnd(entry[3], RPMSENSE_RPMLIB) # 0
    THEN [ok |-> TRUE, dict |-> acc]
    ELSE [ok |-> TRUE,
          dict |-> Put(acc, <<entry[1], v.epoch, v.rel, v.ver>>,
                       [name |-> entry[1], epoch |-> v.epoch,
                        rel |-> v.rel, ver |-> v.ver,
                        flags |-> flags_to_str(entry[3]),
                        pre |-> IF BitAnd(entry[3], PREREQ_MASK) # 0
                                THEN <<"1">> ELSE None])]

\* one iteration of the requires loop: v is parse_ver_str(entry[1])
RequiresEntry(acc, entry) ==
    CHOOSE r \in { RequiresInsert(acc, entry, v) : v \in {parse_ver_str(entry[2])} } :
        TRUE

\* for entry in zip(...): the entries from the i-th on, in order; r is
\* the outcome of the iteration before
RECURSIVE DepLoop(_, _, _)
DepLoop(entries, i, r) ==
    IF ~r.ok \/ i > Len(entries) THEN r
    ELSE CHOOSE end \in { DepLoop(entries, i + 1, x) :
                             x \in {DepEntry(r.dict, entries[i])} } : TRUE

RECURSIVE RequiresLoop(_, _, _)
RequiresLoop(entries, i, r) ==
    IF ~r.ok \/ i > Len(entries) THEN r
    ELSE CHOOSE end \in { RequiresLoop(entries, i + 1, x) :
                             x \in {RequiresEntry(r.dict, entries[i])} } : TRUE

EmptyDict == [x \in {} |-> None]

NoDeps == [ok |-> TRUE, dict |-> EmptyDict]

\* the manifest of the zipped (basename, dirindex) pairs z: a file entry
\* per pair, then a dir entry per slot of the directory table.
\* DIRINDEXES count from 0.
FilesOf(dirnames, z) ==
    IF \E i \in 1..Len(z) : z[i][2] + 1 > Len(dirnames)
    THEN Raise("IndexError")
    ELSE [ok |-> TRUE,
          files |->
            [i \in 1..Len(z) |->
               [name |-> dirnames[z[i][2] + 1] \o z[i][1],
                type |-> TypeFile]]
            \o [i \in 1..Len(dirnames) |->
                  [name |-> dirnames[i], type |-> TypeDir]]]

BuildFiles(dirnames, basenames, dirindexes) ==
    FilesOf(dirnames, Zip2(basenames, dirindexes))

\* version = {'ver': ver, 'rel': rel, 'epoch': epoch}
VersionOf(h) ==
    [ver |-> h["VERSION"], rel |-> Get(h, "RELEASE", None),
     epoch |-> Get(h, "EPOCH", None)]

\* nerv = (name, version['epoch'], version['rel'], version['ver'])
NervOf(h) ==
    <<h["NAME"], Get(h, "EPOCH", None), Get(h, "RELEASE", None), h["VERSION"]>>

\* the filelists package built from the manifest
FilelistsPackage(h, sha, files) ==
    IF ~files.ok THEN files
    ELSE [ok |-> TRUE,
          nerv |-> NervOf(h),
          package |-> [pkgid |-> sha, name |-> h["NAME"],
                       arch |-> h["ARCH"], version |-> VersionOf(h),
                       files |-> files.files]]

header_to_filelists(h, sha) ==
    IF ~({"NAME", "ARCH", "VERSION", "DIRNAMES", "BASENAMES", "DIRINDEXES"}
         \subseteq DOMAIN h)
    THEN Raise("KeyError")
    ELSE CHOOSE r \in
           { FilelistsPackage(h, sha, files) :
               files \in {BuildFiles(h["DIRNAMES"], h["BASENAMES"],
                                     h["DIRINDEXES"])} } : TRUE

\* package = {...}: the primary record
PrimaryPackage(h, sha, mtime, location, provides, requires, obsoletes, files) ==
    IF ~files.ok THEN files
    ELSE [ok |-> TRUE,
          nerv |-> NervOf(h),
          package |->
            [checksum |-> sha, name |-> h["NAME"], arch |-> h["ARCH"],
             version |-> VersionOf(h), summary |-> h["SUMMARY"],
             description |-> h["DESCRIPTION"],
             packager |-> Get(h, "PACKAGER", None),
             url |-> h["URL"],
             file_time |-> IntToStr(IntOfTime(mtime)),
             build_time |-> h["BUILDTIME"],
             location |-> location,
             format |->
               [license |-> Get(h, "LICENSE", None),
                vendor |-> Get(h, "VENDOR", None),
                group |-> Get(h, "GROUP", None),
                buildhost |-> Get(h, "BUILDHOST", None),
                sourcerpm |-> Get(h, "SOURCERPM", None),
                header_start |-> None,
                header_end |-> None,
                provides |-> provides.dict,
                requires |-> requires.dict,
                obsoletes |-> obsoletes.dict,
                files |-> files.files]]]

\* header_to_primary from the dependency blocks on: the first loop that
\* raised ends it, then the manifest is built
PrimaryFromDeps(h, sha, mtime, location, provides, requires, obsoletes) ==
    IF ~provides.ok THEN provides
    ELSE IF ~requires.ok THEN requires
    ELSE IF ~obsoletes.ok THEN obsoletes
    ELSE IF ~({"DIRNAMES", "BASENAMES", "DIRINDEXES"} \subseteq DOMAIN h)
    THEN Raise("KeyError")
    ELSE CHOOSE r \in
           { PrimaryPackage(h, sha, mtime, location, provides, requires,
                            obsoletes, files) :
               files \in {BuildFiles(h["DIRNAMES"], h["BASENAMES"],
                                     h["DIRINDEXES"])} } : TRUE

header_to_primary(h, sha, mtime, location) ==
    IF ~({"NAME", "ARCH", "SUMMARY", "DESCRIPTION", "BUILDTIME", "URL",
          "VERSION"} \subseteq DOMAIN h)
    THEN Raise("KeyError")
    ELSE CHOOSE r \in
           { PrimaryFromDeps(h, sha, mtime, location, provides, requires,
                             obsoletes) :
               provides \in
                 {DepLoop(Zip3(Get(h, "PROVIDENAME", <<>>),
                               Get(h, "PROVIDEVERSION", <<>>),
                               Get(h, "PROVIDEFLAGS", <<>>)), 1, NoDeps)},
               requires \in
                 {RequiresLoop(Zip3(Get(h, "REQUIRENAME", <<>>),
                                    Get(h, "REQUIREVERSION", <<>>),
                                    Get(h, "REQUIREFLAGS", <<>>)), 1, NoDeps)},
               obsoletes \in
                 {DepLoop(Zip3(Get(h, "OBSOLETENAME", <<>>),
                               Get(h, "OBSOLETEVERSION", <<>>),
                               Get(h, "OBSOLETEFLAGS", <<>>)), 1, NoDeps)} } :
             TRUE

-----------------------------------------------------------------------------
(* The inputs of a run: what the storage lists and holds *)

NL == "\n"

\* "a.rpm", "b.rpm", "a.txt", and "a.rpm" followed by a line end
PathPool ==
    { <<"a", ".", "r", "p", "m">>,
      <<"b", ".", "r", "p", "m">>,
      <<"a", ".", "t", "x", "t">>,
      <<"a", ".", "r", "p", "m", NL>> }

\* the timestamp of s seconds and t ticks
Seconds(s, t) == s * TicksPerSecond + t

FooName == <<"f", "o", "o">>
BarName == <<"b", "a", "r">>

\* foo-0:1-1, one file /b/f, requires libc >= 0:2-1 (pre) and an rpmlib entry
HdrFoo ==
    [NAME |-> FooName, ARCH |-> <<"x">>, SUMMARY |-> <<"s">>,
     DESCRIPTION |-> <<"d">>, BUILDTIME |-> 7, URL |-> <<"u">>,
     EPOCH |-> <<"0">>, VERSION |-> <<"1">>, RELEASE |-> <<"1">>,
     DIRNAMES |-> << <<"/", "b", "/">> >>, BASENAMES |-> << <<"f">> >>,
     DIRINDEXES |-> <<0>>,
     REQUIRENAME |-> << <<"c">>, <<"r">> >>,
     REQUIREVERSION |-> << <<"2", "-", "1">>, <<"3", "-", "1">> >>,
     REQUIREFLAGS |-> <<12 + 4096, RPMSENSE_RPMLIB + 10>>]

\* bar-1-2 without EPOCH, no files, no dependencies
HdrBar ==
    [NAME |-> BarName, ARCH |-> <<"x">>, SUMMARY |-> <<"s">>,
     DESCRIPTION |-> <<"d">>, BUILDTIME |-> 9, URL |-> <<"u">>,
     VERSION |-> <<"1">>, RELEASE |-> <<"2">>,
     DIRNAMES |-> <<>>, BASENAMES |-> <<>>, DIRINDEXES |-> <<>>]

\* a header whose one requires entry has a version text without '-'
HdrBadReq ==
    [HdrBar EXCEPT !.NAME = <<"b", "a", "d">>] @@
    [REQUIRENAME |-> << <<"c">> >>, REQUIREVERSION |-> << <<"2">> >>,
     REQUIREFLAGS |-> <<8>>]

\* what an archive holds: its header and the sha256 of its bytes
FooArchive == [hdr |-> HdrFoo, sha |-> <<"h", "1">>]
BarArchive == [hdr |-> HdrBar, sha |-> <<"h", "3">>]
BadArchive == [hdr |-> HdrBadReq, sha |-> <<"h", "4">>]

\* what the storage may hold at a path: an archive and its modification
\* time (100 s, 100 s and one tick, 200 s)
StoredPool ==
    { [mtime |-> Seconds(100, 0), content |-> FooArchive],
      [mtime |-> Seconds(100, 1), content |-> FooArchive],
      [mtime |-> Seconds(200, 0), content |-> FooArchive],
      [mtime |-> Seconds(100, 0), content |-> BarArchive],
      [mtime |-> Seconds(200, 0), content |-> BadArchive] }

\* a primary record as parse_primary returns it: every attribute a str
DocPrimary(name, ver, rel, location, file_time, checksum) ==
    [checksum |-> checksum, name |-> name, arch |-> <<"x">>,
     version |-> [ver |-> ver, rel |-> rel, epoch |-> <<"0">>],
     summary |-> <<"s">>, description |-> <<"d">>, packager |-> None,
     url |-> <<"u">>, file_time |-> file_time, build_time |-> <<"7">>,
     location |-> location,
     format |-> [license |-> None, vendor |-> None, group |-> None,
                 buildhost |-> None, sourcerpm |-> None,
                 header_start |-> <<"8">>, header_end |-> <<"9">>,
                 provides |-> EmptyDict, requires |-> EmptyDict,
                 obsoletes |-> EmptyDict, files |-> <<>>]]

\* a filelists record as parse_filelists returns it
DocFilelists(name, ver, rel, pkgid) ==
    [pkgid |-> pkgid, name |-> name, arch |-> <<"x">>,
     version |-> [ver |-> ver, rel |-> rel, epoch |-> <<"0">>],
     files |-> <<>>]

FooKey == <<FooName, <<"0">>, <<"1">>, <<"1">> >>
BarKey == <<BarName, <<"0">>, <<"2">>, <<"1">> >>

\* the metadata documents a storage may hold: none; or foo recorded at
\* (a.rpm, 100) and bar at (b.rpm, 200)
IndexPool ==
    { [exists |-> FALSE, primary |-> EmptyDict, filelists |-> EmptyDict],
      [exists |-> TRUE,
       primary |-> (FooKey :> DocPrimary(FooName, <<"1">>, <<"1">>,
                        <<"a", ".", "r", "p", "m">>, <<"1", "0", "0">>,
                        <<"h", "0">>))
                @@ (BarKey :> DocPrimary(BarName, <<"1">>, <<"2">>,
                        <<"b", ".", "r", "p", "m">>, <<"2", "0", "0">>,
                        <<"h", "3">>)),
       filelists |-> (FooKey :> DocFilelists(FooName, <<"1">>, <<"1">>,
                        <<"h", "0">>))
                @@ (BarKey :> DocFilelists(BarName, <<"1">>, <<"2">>,
                        <<"h", "3">>))] }

InitStorage ==
    /\ \E ix \in IndexPool :
         /\ repo_exists = ix.exists
         /\ repo_primary = ix.primary
         /\ repo_filelists = ix.filelists
    /\ stor_files \in {F \in SUBSET PathPool : Cardinality(F) <= MaxFiles}
    /\ \E stored \in [stor_files -> StoredPool] :
         /\ stor_mtime = [f \in stor_files |-> stored[f].mtime]
         /\ stor_content = [f \in stor_files |-> stored[f].content]

NoStorage ==
    /\ repo_exists = FALSE
    /\ repo_primary = EmptyDict
    /\ repo_filelists = EmptyDict
    /\ stor_files = {}
    /\ stor_mtime = EmptyDict
    /\ stor_content = EmptyDict

\* the locals of update_repo before it starts
InitRun(start) ==
    /\ pc = start
    /\ primary = EmptyDict
    /\ filelists = EmptyDict
    /\ files_to_add = {}
    /\ pending = {}
    /\ file_to_add = None
    /\ tmpdir = 0
    /\ scratch = {}
    /\ header = None
    /\ sha256 = None
    /\ nerv = None
    /\ prim = None
    /\ flist = None
    /\ out = <<>>
    /\ download_log = <<>>
    /\ error = NoError

\* parse_ver_str and header_to_primary not yet called
NotCalled == [called |-> FALSE]

NoVer == ver_str = None /\ ver_out = NotCalled
NoReq == req_header = None /\ req_out = NotCalled

Init == InitStorage /\ InitRun("load") /\ NoVer /\ NoReq

-----------------------------------------------------------------------------
(* update_repo *)

\* re.match("^.*\.rpm$", s): '.' takes any character but a line end, and
\* '$' holds at the end of the text or before a line end that ends it
MatchRpmPath(s) ==
    \E k \in 0..Len(s) :
        /\ \A i \in 1..k : s[i] # NL
        /\ k + 4 <= Len(s)
        /\ SubSeq(s, k + 1, k + 4) = <<".", "r", "p", "m">>
        /\ \/ k + 4 = Len(s)
           \/ k + 5 = Len(s) /\ s[k + 5] = NL

\* recorded_files
RecordedFiles(prims) ==
    { <<prims[k].location, FloatOfStr(prims[k].file_time)>> : k \in DOMAIN prims }

\* existing_files
ExistingFiles ==
    { <<f, stor_mtime[f]>> : f \in {g \in stor_files : MatchRpmPath(g)} }

\* the run ends with exception e
Fail(e) == pc' = "failed" /\ error' = e

\* filelists = {}; primary = {}; and, when the storage holds a summary
\* document, both replaced by the parsed documents.  Reading or parsing
\* them may raise.
Load ==
    /\ pc = "load"
    /\ IF repo_exists
       THEN \E ok \in BOOLEAN :
              IF ok
              THEN /\ primary' = repo_primary
                   /\ filelists' = repo_filelists
                   /\ pc' = "diff"
                   /\ error' = error
              ELSE /\ Fail("LoadError")
                   /\ UNCHANGED <<primary, filelists>>
       ELSE /\ primary' = EmptyDict
            /\ filelists' = EmptyDict
            /\ pc' = "diff"
            /\ error' = error
    /\ UNCHANGED <<files_to_add, pending, file_to_add, tmpdir, scratch, header,
                   sha256, nerv, prim, flist, out, download_log>>
    /\ UNCHANGED <<storVars, verVars, reqVars>>

\* recorded_files, existing_files, files_to_add; listing the storage may raise
Diff ==
    /\ pc = "diff"
    /\ \E ok \in BOOLEAN :
         IF ok
         THEN /\ files_to_add' = ExistingFiles \ RecordedFiles(primary)
              /\ pending' = files_to_add'
              /\ pc' = "loop"
              /\ error' = error
         ELSE /\ Fail("ListError")
              /\ UNCHANGED <<files_to_add, pending>>
    /\ UNCHANGED <<primary, filelists, file_to_add, tmpdir, scratch, header,
                   sha256, nerv, prim, flist, out, download_log>>
    /\ UNCHANGED <<storVars, verVars, reqVars>>

\* for file_to_add in files_to_add: the next element, in no fixed order,
\* and print("Adding: ...")
NextFile ==
    /\ pc = "loop"
    /\ pending # {}
    /\ \E e \in pending :
         /\ file_to_add' = e
         /\ pending' = pending \ {e}
         /\ out' = Append(out, e[1])
    /\ pc' = "mkdtemp"
    /\ UNCHANGED <<primary, filelists, files_to_add, tmpdir, scratch, header,
                   sha256, nerv, prim, flist, download_log, error>>
    /\ UNCHANGED <<storVars, verVars, reqVars>>

\* the loop is exhausted: update_repo returns
LoopEnd ==
    /\ pc = "loop"
    /\ pending = {}
    /\ pc' = "done"
    /\ UNCHANGED <<primary, filelists, files_to_add, pending, file_to_add,
                   tmpdir, scratch, header, sha256, nerv, prim, flist, out,
                   download_log, error>>
    /\ UNCHANGED <<storVars, verVars, reqVars>>

\* tmpdir = tempfile.mkdtemp(): a directory no earlier call returned
Mkdtemp ==
    /\ pc = "mkdtemp"
    /\ tmpdir' = Len(out)
    /\ scratch' = scratch \cup {tmpdir'}
    /\ pc' = "download"
    /\ UNCHANGED <<primary, filelists, files_to_add, pending, file_to_add,
                   header, sha256, nerv, prim, flist, out, download_log, error>>
    /\ UNCHANGED <<storVars, verVars, reqVars>>

\* Download with a failure swallowed: the loop goes on to the next archive
Download_Swallow ==
    /\ pc = "download"
    /\ download_log' = Append(download_log, file_to_add[1])
    /\ \E ok \in BOOLEAN :
         IF ok THEN pc' = "parse_file" /\ error' = error
         ELSE pc' = "loop" /\ error' = error
    /\ UNCHANGED <<primary, filelists, files_to_add, pending, file_to_add,
                   tmpdir, scratch, header, sha256, nerv, prim, flist, out>>
    /\ UNCHANGED <<storVars, verVars, reqVars>>

\* storage.download_file(file_path, tmpdir/package.rpm); may raise
Download ==
    /\ pc = "download"
    /\ download_log' = Append(download_log, file_to_add[1])
    /\ \E ok \in BOOLEAN :
         IF ok THEN pc' = "parse_file" /\ error' = error
         ELSE Fail("DownloadError")
    /\ UNCHANGED <<primary, filelists, files_to_add, pending, file_to_add,
                   tmpdir, scratch, header, sha256, nerv, prim, flist, out>>
    /\ UNCHANGED <<storVars, verVars, reqVars>>

\* header = rpminfo.parse_file(tmpdir/package.rpm); raises on an archive
\* it cannot read
ParseFile ==
    /\ pc = "parse_file"
    /\ \E ok \in BOOLEAN :
         IF ok
         THEN /\ header' = stor_content[file_to_add[1]].hdr
              /\ pc' = "checksum"
              /\ error' = error
         ELSE /\ Fail("ArchiveFormatError")
              /\ header' = header
    /\ UNCHANGED <<primary, filelists, files_to_add, pending, file_to_add,
                   tmpdir, scratch, sha256, nerv, prim, flist, out,
                   download_log>>
    /\ UNCHANGED <<storVars, verVars, reqVars>>

\* sha256 = file_checksum(tmpdir/package.rpm, "sha256"); reading may raise
Checksum ==
    /\ pc = "checksum"
    /\ \E ok \in BOOLEAN :
         IF ok
         THEN /\ sha256' = stor_content[file_to_add[1]].sha
              /\ pc' = "rmtree"
              /\ error' = error
         ELSE /\ Fail("ChecksumError")
              /\ sha256' = sha256
    /\ UNCHANGED <<primary, filelists, files_to_add, pending, file_to_add,
                   tmpdir, scratch, header, nerv, prim, flist, out,
                   download_log>>
    /\ UNCHANGED <<storVars, verVars, reqVars>>

\* shutil.rmtree(tmpdir)
Rmtree ==
    /\ pc = "rmtree"
    /\ scratch' = scratch \ {tmpdir}
    /\ pc' = "map_primary"
    /\ UNCHANGED <<primary, filelists, files_to_add, pending, file_to_add,
                   tmpdir, header, sha256, nerv, prim, flist, out,
                   download_log, error>>
    /\ UNCHANGED <<storVars, verVars, reqVars>>

\* nerv, prim = header_to_primary(header, sha256, mtime, file_path)
MapPrimary ==
    /\ pc = "map_primary"
    /\ \E r \in {header_to_primary(header, sha256, file_to_add[2], file_to_add[1])} :
           IF r.ok
           THEN /\ nerv' = r.nerv
                /\ prim' = r.package
                /\ pc' = "map_filelists"
                /\ error' = error
           ELSE /\ Fail(r.error)
                /\ UNCHANGED <<nerv, prim>>
    /\ UNCHANGED <<primary, filelists, files_to_add, pending, file_to_add,
                   tmpdir, scratch, header, sha256, flist, out, download_log>>
    /\ UNCHANGED <<storVars, verVars, reqVars>>

\* MapFilelists run after primary[nerv] = prim, where it can still raise
MapFilelists_AfterInsert ==
    /\ pc = "map_filelists"
    /\ primary' = Put(primary, nerv, prim)
    /\ \E ok \in BOOLEAN :
         IF ok
         THEN /\ flist' = header_to_filelists(header, sha256).package
              /\ pc' = "merge_primary"
              /\ error' = error
         ELSE /\ Fail("KeyError")
              /\ flist' = flist
    /\ UNCHANGED <<filelists, files_to_add, pending, file_to_add,
                   tmpdir, scratch, header, sha256, nerv, prim, out,
                   download_log>>
    /\ UNCHANGED <<storVars, verVars, reqVars>>

\* _, flist = header_to_filelists(header, sha256)
MapFilelists ==
    /\ pc = "map_filelists"
    /\ \E r \in {header_to_filelists(header, sha256)} :
           IF r.ok
           THEN /\ flist' = r.package
                /\ pc' = "merge_primary"
                /\ error' = error
           ELSE /\ Fail(r.error)
                /\ flist' = flist
    /\ UNCHANGED <<primary, filelists, files_to_add, pending, file_to_add,
                   tmpdir, scratch, header, sha256, nerv, prim, out,
                   download_log>>
    /\ UNCHANGED <<storVars, verVars, reqVars>>

\* MergePrimary keeping only the record it inserts
MergePrimary_Fresh ==
    /\ pc = "merge_primary"
    /\ primary' = Put(EmptyDict, nerv, prim)
    /\ pc' = "merge_filelists"
    /\ UNCHANGED <<filelists, files_to_add, pending, file_to_add, tmpdir,
                   scratch, header, sha256, nerv, prim, flist, out,
                   download_log, error>>
    /\ UNCHANGED <<storVars, verVars, reqVars>>

\* MergePrimary keeping the record an identity already has
MergePrimary_KeepFirst ==
    /\ pc = "merge_primary"
    /\ primary' = IF nerv \in DOMAIN primary THEN primary
                  ELSE Put(primary, nerv, prim)
    /\ pc' = "merge_filelists"
    /\ UNCHANGED <<filelists, files_to_add, pending, file_to_add, tmpdir,
                   scratch, header, sha256, nerv, prim, flist, out,
                   download_log, error>>
    /\ UNCHANGED <<storVars, verVars, reqVars>>

\* primary[nerv] = prim
MergePrimary ==
    /\ pc = "merge_primary"
    /\ primary' = Put(primary, nerv, prim)
    /\ pc' = "merge_filelists"
    /\ UNCHANGED <<filelists, files_to_add, pending, file_to_add, tmpdir,
                   scratch, header, sha256, nerv, prim, flist, out,
                   download_log, error>>
    /\ UNCHANGED <<storVars, verVars, reqVars>>

\* filelists[nerv] = flist
MergeFilelists ==
    /\ pc = "merge_filelists"
    /\ filelists' = Put(filelists, nerv, flist)
    /\ pc' = "loop"
    /\ UNCHANGED <<primary, files_to_add, pending, file_to_add, tmpdir,
                   scratch, header, sha256, nerv, prim, flist, out,
                   download_log, error>>
    /\ UNCHANGED <<storVars, verVars, reqVars>>

Next ==
    \/ Load
    \/ Diff
    \/ NextFile
    \/ LoopEnd
    \/ Mkdtemp
    \/ Download
    \/ ParseFile
    \/ Checksum
    \/ Rmtree
    \/ MapPrimary
    \/ MapFilelists
    \/ MergePrimary
    \/ MergeFilelists

Spec == Init /\ [][Next]_vars

\* the run is sequential code: a step that can be taken is taken
FairSpec == Spec /\ WF_vars(Next)

-----------------------------------------------------------------------------
(* parse_ver_str applied to one text *)

VerAlphabet == {"1", ":", "-", "a"}

\* the strings over alphabet A of length at most n
SeqsUpTo(A, n) == UNION {[1..k -> A] : k \in 0..n}

InitVer ==
    /\ NoStorage /\ InitRun("off") /\ NoReq
    /\ ver_str \in {None} \cup SeqsUpTo(VerAlphabet, MaxVerLen)
    /\ ver_out = NotCalled

CallParseVerStr ==
    /\ ~ver_out.called
    /\ ver_out' = [called |-> TRUE, result |-> parse_ver_str(ver_str)]
    /\ UNCHANGED <<ver_str, storVars, runVars, reqVars>>

NextVer == CallParseVerStr

SpecVer == InitVer /\ [][NextVer]_vars

-----------------------------------------------------------------------------
(* header_to_primary applied to one header *)

ReqNamePool == { <<"c">>, <<"r">> }

\* "", "2-1", "1:2-1" and "2", which has no '-'
ReqVersionPool ==
    { <<>>, <<"2", "-", "1">>, <<"1", ":", "2", "-", "1">>, <<"2">> }

\* no flag; EQUAL with two of the script bits; the interpreter bit; and
\* the rpmlib bit, alone with a comparison and with the pre bits
ReqFlagsPool ==
    { 0, 8 + 4096 + 1024, 256, RPMSENSE_RPMLIB + 8,
      RPMSENSE_RPMLIB + PREREQ_MASK }

InitReq ==
    /\ NoStorage /\ InitRun("off") /\ NoVer
    /\ \E ns \in SeqsUpTo(ReqNamePool, MaxReq),
          vs \in SeqsUpTo(ReqVersionPool, MaxReq),
          fs \in SeqsUpTo(ReqFlagsPool, MaxReq) :
         req_header = [REQUIRENAME |-> ns, REQUIREVERSION |-> vs,
                       REQUIREFLAGS |-> fs] @@ HdrBar
    /\ req_out = NotCalled

CallHeaderToPrimary ==
    /\ ~req_out.called
    /\ req_out' = [called |-> TRUE,
                   result |-> header_to_primary(req_header, <<"h", "3">>,
                                  Seconds(100, 0),
                                  <<"b", ".", "r", "p", "m">>)]
    /\ UNCHANGED <<req_header, storVars, runVars, verVars>>

NextReq == CallHeaderToPrimary

SpecReq == InitReq /\ [][NextReq]_vars

-----------------------------------------------------------------------------
(* Properties of parse_ver_str, under SpecVer *)

IsDigits(x) == \A k \in 1..Len(x) : IsDigit(x[k])

NoDash(x) == \A k \in 1..Len(x) : x[k] # "-"

\* s is E:V-R with the ':' at position i and the '-' at position j
EpochForm(s, i, j) ==
    /\ 1 < i /\ i < j /\ j <= Len(s)
    /\ s[i] = ":" /\ s[j] = "-"
    /\ IsDigits(SubSeq(s, 1, i - 1))
    /\ NoDash(SubSeq(s, i + 1, j - 1))
    /\ NoDash(SubSeq(s, j + 1, Len(s)))

\* s is V-R with the '-' at position j
PlainForm(s, j) ==
    /\ 1 <= j /\ j <= Len(s)
    /\ s[j] = "-"
    /\ NoDash(SubSeq(s, 1, j - 1))
    /\ NoDash(SubSeq(s, j + 1, Len(s)))

HasEpochPrefix(s) == \E i \in 2..Len(s) : s[i] = ":" /\ IsDigits(SubSeq(s, 1, i - 1))

Triple(e, v, r) == [ok |-> TRUE, epoch |-> e, ver |-> v, rel |-> r]

\* C8: parse_ver_str returns (E, V, R) for every text E:V-R, ("0", V, R)
\* for every text V-R without an epoch prefix, the all-None triple for
\* an empty or absent text, and raises for every other text, such as one
\* without '-'.
C8_ParseVerStr ==
    ver_out.called =>
      IF ver_str = None \/ ver_str = <<>>
      THEN ver_out.result = Triple(None, None, None)
      ELSE /\ \A i \in 1..Len(ver_str), j \in 1..Len(ver_str) :
                EpochForm(ver_str, i, j) =>
                  ver_out.result = Triple(SubSeq(ver_str, 1, i - 1),
                                          SubSeq(ver_str, i + 1, j - 1),
                                          SubSeq(ver_str, j + 1, Len(ver_str)))
           /\ \A j \in 1..Len(ver_str) :
                PlainForm(ver_str, j) /\ ~HasEpochPrefix(ver_str) =>
                  ver_out.result = Triple(<<"0">>,
                                          SubSeq(ver_str, 1, j - 1),
                                          SubSeq(ver_str, j + 1, Len(ver_str)))
           /\ (\A j \in 1..Len(ver_str) : ~PlainForm(ver_str, j)) =>
                ver_out.result = Raise("RuntimeError")

\* parse_ver_str was called on "1:a-1" and returned ("1", "a", "1")
C8_Witness ==
    /\ ver_out.called
    /\ ver_str = <<"1", ":", "a", "-", "1">>
    /\ ver_out.result = Triple(<<"1">>, <<"a">>, <<"1">>)

-----------------------------------------------------------------------------
(* Properties of the requires block of header_to_primary, under SpecReq *)

\* 2 to the n
RECURSIVE Pow2(_)
Pow2(n) == IF n = 0 THEN 1 ELSE 2 * Pow2(n - 1)

\* bit b of x is set
HasBit(x, b) == (x \div Pow2(b)) % 2 = 1

\* the rpmlib bit is bit 24; 4352 is bits 8 and 12
IsRpmlib(flags) == HasBit(flags, 24)
IsPre(flags) == HasBit(flags, 8) \/ HasBit(flags, 12)

\* the zipped requires entries of the input header
ReqEntries ==
    Zip3(req_header.REQUIRENAME, req_header.REQUIREVERSION,
         req_header.REQUIREFLAGS)

\* the key (name, epoch, release, version) of a requires entry
ReqKey(entry) ==
    <<entry[1], parse_ver_str(entry[2]).epoch, parse_ver_str(entry[2]).rel,
      parse_ver_str(entry[2]).ver>>

\* the resulting requires mapping
ReqMap == req_out.result.package.format.requires

\* entry i is the last entry without the rpmlib bit that has its key
LastOfKey(i) ==
    /\ ~IsRpmlib(ReqEntries[i][3])
    /\ \A j \in (i + 1)..Len(ReqEntries) :
         IsRpmlib(ReqEntries[j][3]) \/ ReqKey(ReqEntries[j]) # ReqKey(ReqEntries[i])

\* C7: in the requires mapping header_to_primary returns, no record comes
\* from an entry with the rpmlib bit: every key is the key of an entry
\* without the bit; and every entry without the bit is inserted under
\* (name, epoch, release, version), with pre "1" exactly when its flags
\* have a bit of 4352 and None otherwise (of two entries with one key the
\* later is the one that stays).
C7_RequiresMapping ==
    (req_out.called /\ req_out.result.ok) =>
      /\ \A k \in DOMAIN ReqMap :
           \E i \in 1..Len(ReqEntries) :
             ~IsRpmlib(ReqEntries[i][3]) /\ ReqKey(ReqEntries[i]) = k
      /\ \A i \in 1..Len(ReqEntries) :
           ~IsRpmlib(ReqEntries[i][3]) =>
             /\ ReqKey(ReqEntries[i]) \in DOMAIN ReqMap
             /\ LastOfKey(i) =>
                  LET rec == ReqMap[ReqKey(ReqEntries[i])]
                  IN  /\ rec.name = ReqEntries[i][1]
                      /\ <<rec.name, rec.epoch, rec.rel, rec.ver>>
                           = ReqKey(ReqEntries[i])
                      /\ rec.pre = IF IsPre(ReqEntries[i][3])
                                   THEN <<"1">> ELSE None
      /\ (\A i \in 1..Len(ReqEntries) : IsRpmlib(ReqEntries[i][3]))
           => ReqMap = EmptyDict

\* a header with an rpmlib entry and an entry with the pre bits was
\* mapped: one record, marked pre
C7_Witness ==
    /\ req_out.called
    /\ req_out.result.ok
    /\ \E i, j \in 1..Len(ReqEntries) :
         /\ IsRpmlib(ReqEntries[i][3])
         /\ ~IsRpmlib(ReqEntries[j][3])
         /\ IsPre(ReqEntries[j][3])
         /\ ReqKey(ReqEntries[i]) # ReqKey(ReqEntries[j])
    /\ \E k \in DOMAIN ReqMap : ReqMap[k].pre = <<"1">>
    /\ Cardinality(DOMAIN ReqMap) = 1

-----------------------------------------------------------------------------
(* Properties of a run of update_repo, under Spec and FairSpec *)

ARpm == <<"a", ".", "r", "p", "m">>
BRpm == <<"b", ".", "r", "p", "m">>

\* the path ends in ".rpm"
EndsWithRpm(p) ==
    Len(p) >= 4 /\ SubSeq(p, Len(p) - 3, Len(p)) = <<".", "r", "p", "m">>

HasLineEnd(p) == \E i \in 1..Len(p) : p[i] = NL

Range(q) == {q[i] : i \in 1..Len(q)}

\* the index the run starts from
LoadedPrimary == IF repo_exists THEN repo_primary ELSE EmptyDict
LoadedFilelists == IF repo_exists THEN repo_filelists ELSE EmptyDict

\* the index was loaded; the Diff step was done
AfterLoad == pc \notin {"off", "load"} /\ error # "LoadError"
AfterDiff == AfterLoad /\ pc # "diff" /\ error # "ListError"

ArchiveAt(p) == <<p, stor_mtime[p]>>

\* what the mapper makes of the archive e = (path, mtime) of the storage
Mapped(e) ==
    header_to_primary(stor_content[e[1]].hdr, stor_content[e[1]].sha, e[2], e[1])
MappedFilelists(e) ==
    header_to_filelists(stor_content[e[1]].hdr, stor_content[e[1]].sha)

\* the (location, file_time) pairs the loaded index records
LoadedPairs ==
    { <<LoadedPrimary[k].location, StrToInt(LoadedPrimary[k].file_time) * TicksPerSecond>> :
        k \in DOMAIN LoadedPrimary }

\* the identities whose record is not the loaded one
InsertedPrimary ==
    { k \in DOMAIN primary :
        k \notin DOMAIN LoadedPrimary \/ primary[k] # LoadedPrimary[k] }
InsertedFilelists ==
    { k \in DOMAIN filelists :
        k \notin DOMAIN LoadedFilelists \/ filelists[k] # LoadedFilelists[k] }

Terminated == pc \in {"done", "failed"}

\* C1: the to-ingest set is the (path, mtime) pairs of the storage entries
\* whose path ends in .rpm, minus the (location, file_time) pairs of the
\* loaded index, and no path without the .rpm suffix is ever ingested.
C1_DiffBySuffix ==
    AfterDiff =>
      /\ files_to_add =
           { ArchiveAt(f) : f \in {g \in stor_files : EndsWithRpm(g)} }
             \ LoadedPairs
      /\ \A i \in 1..Len(out) : EndsWithRpm(out[i])

\* C2 as claimed: after a run every record of the loaded index is still
\* present and unchanged, and an archive recorded with another mtime is
\* ingested.
C2_NeverUpdates ==
    pc = "done" =>
      /\ \A k \in DOMAIN LoadedPrimary :
           k \in DOMAIN primary /\ primary[k] = LoadedPrimary[k]
      /\ \A k \in DOMAIN LoadedFilelists :
           k \in DOMAIN filelists /\ filelists[k] = LoadedFilelists[k]

\* C2, amended: a listed .rpm path that the index does not record with
\* its current mtime is in the to-ingest set and, when the run completes,
\* was ingested; the run removes no identity; and a loaded record is
\* unchanged unless an archive ingested by the run has its identity, in
\* which case it is that archive's record.
C2_AddsOrOverwrites ==
    AfterLoad =>
      /\ \A k \in DOMAIN LoadedPrimary :
           /\ k \in DOMAIN primary
           /\ \/ primary[k] = LoadedPrimary[k]
              \/ \E e \in files_to_add \ pending :
                   /\ Mapped(e).ok
                   /\ Mapped(e).nerv = k
                   /\ primary[k] = Mapped(e).package
      /\ \A k \in DOMAIN LoadedFilelists :
           /\ k \in DOMAIN filelists
           /\ \/ filelists[k] = LoadedFilelists[k]
              \/ \E e \in files_to_add \ pending :
                   /\ MappedFilelists(e).ok
                   /\ MappedFilelists(e).nerv = k
                   /\ filelists[k] = MappedFilelists(e).package
      /\ AfterDiff =>
           \A f \in stor_files :
             (EndsWithRpm(f) /\ ~HasLineEnd(f) /\ ArchiveAt(f) \notin LoadedPairs)
               => ArchiveAt(f) \in files_to_add
      /\ pc = "done" =>
           \A e \in files_to_add :
             /\ e[1] \in Range(out)
             /\ Mapped(e).nerv \in DOMAIN primary
             /\ Mapped(e).nerv \in DOMAIN filelists

\* a.rpm, recorded at 100 and now at 200, was ingested: the record of its
\* identity is now the one of (a.rpm, 200)
C2_Witness ==
    /\ pc = "done"
    /\ FooKey \in DOMAIN LoadedPrimary
    /\ LoadedPrimary[FooKey].location = ARpm
    /\ LoadedPrimary[FooKey].file_time = <<"1", "0", "0">>
    /\ ARpm \in stor_files
    /\ stor_mtime[ARpm] = Seconds(200, 0)
    /\ ArchiveAt(ARpm) \in files_to_add
    /\ primary[FooKey] = Mapped(ArchiveAt(ARpm)).package
    /\ primary[FooKey].file_time = <<"2", "0", "0">>

\* C3: after any run, completed or aborted, no scratch directory the run
\* created still exists.
C3_NoScratchLeft == Terminated => scratch = {}

\* the i-th archive the loop took was ingested to the end
Completed(i) ==
    /\ Mapped(ArchiveAt(out[i])).ok
    /\ Mapped(ArchiveAt(out[i])).nerv \in DOMAIN primary
    /\ Mapped(ArchiveAt(out[i])).nerv \in DOMAIN filelists
    /\ i \notin scratch
    /\ out[i] \in Range(download_log)

C4_Safe ==
    \* an error ends the run where it is raised
    /\ error # NoError <=> pc = "failed"
    /\ pc = "failed" => ~ENABLED Next
    \* no archive still to come was taken or downloaded
    /\ \A e \in pending : e[1] \notin Range(out) /\ e[1] \notin Range(download_log)
    \* the archives are downloaded once each, in the order they are taken
    /\ Len(download_log) <= Len(out)
    /\ Len(out) - Len(download_log) <= 1
    /\ \A i \in 1..Len(download_log) : download_log[i] = out[i]
    \* nothing is merged but what was taken
    /\ InsertedPrimary \cup InsertedFilelists
         \subseteq { NervOf(stor_content[out[i]].hdr) : i \in 1..Len(out) }
    \* when an archive is taken, those before it are complete
    /\ \A i \in 1..Len(out) :
         (i < Len(out) \/ pc \in {"loop", "done"}) => Completed(i)
    \* a run that returns has ingested the whole to-ingest set
    /\ pc = "done" =>
         /\ pending = {}
         /\ Len(out) = Cardinality(files_to_add)
         /\ { ArchiveAt(out[i]) : i \in 1..Len(out) } = files_to_add

\* C4: a run aborts at the first error, with no later archive downloaded
\* or merged; each archive is ingested to the end before the next is
\* taken; and the run terminates, after merging the whole to-ingest set
\* when nothing fails.
C4_AbortOrComplete == []C4_Safe /\ <>Terminated

\* the run failed on an archive while another was still to come
C4_Witness ==
    /\ pc = "failed"
    /\ Len(out) = 1
    /\ pending # {}
    /\ error = "ArchiveFormatError"

\* C5: at every point of a run but between the two assignments of a merge,
\* and at its end, the identities the run inserted are the same in the
\* primary and the filelists mapping, and both records of each come from
\* one archive.
C5_BothOrNeither ==
    pc # "merge_filelists" =>
      /\ InsertedPrimary = InsertedFilelists
      /\ \A k \in InsertedPrimary :
           \E e \in files_to_add \ pending :
             /\ Mapped(e).ok /\ MappedFilelists(e).ok
             /\ Mapped(e).nerv = k
             /\ primary[k] = Mapped(e).package
             /\ filelists[k] = MappedFilelists(e).package
             /\ primary[k].checksum = stor_content[e[1]].sha
             /\ filelists[k].pkgid = stor_content[e[1]].sha

\* the run merged one archive and failed mapping the next
C5_Witness ==
    /\ pc = "failed"
    /\ error = "RuntimeError"
    /\ Cardinality(InsertedPrimary) = 1
    /\ InsertedFilelists = InsertedPrimary

\* C6: from an empty index and a storage with exactly one .rpm archive,
\* once the run has ingested it the index has exactly one identity, whose
\* primary location is the archive's path and whose checksum, also the
\* filelists pkgid, is the archive's content hash.
C6_EndToEnd ==
    \A p \in stor_files :
      ( /\ pc = "done"
        /\ ~repo_exists
        /\ {q \in stor_files : EndsWithRpm(q)} = {p}
        /\ p \in Range(out) )
      => /\ Cardinality(DOMAIN primary) = 1
         /\ DOMAIN filelists = DOMAIN primary
         /\ \A k \in DOMAIN primary :
              /\ primary[k].location = p
              /\ primary[k].checksum = stor_content[p].sha
              /\ filelists[k].pkgid = stor_content[p].sha

\* the identities of the to-ingest set
IngestIds == { Mapped(e).nerv : e \in files_to_add }

\* position i is the last in the order of processing with identity k
LastWith(k, i) ==
    /\ Mapped(ArchiveAt(out[i])).nerv = k
    /\ \A j \in (i + 1)..Len(out) : Mapped(ArchiveAt(out[j])).nerv # k

\* C9: when every identity is in at most one archive of the to-ingest set
\* the index of a completed run is a function of that set alone, whatever
\* the order of processing; in any case the record of an identity is the
\* one of the archive processed last among those that have it.
C9_OrderIndependent ==
    pc = "done" =>
      /\ DOMAIN primary = (DOMAIN LoadedPrimary) \cup IngestIds
      /\ DOMAIN filelists = (DOMAIN LoadedFilelists) \cup IngestIds
      /\ \A k \in IngestIds :
           \E i \in 1..Len(out) :
             /\ LastWith(k, i)
             /\ primary[k] = Mapped(ArchiveAt(out[i])).package
             /\ filelists[k] = MappedFilelists(ArchiveAt(out[i])).package
      /\ Cardinality(IngestIds) = Cardinality(files_to_add) =>
           /\ primary =
                [k \in (DOMAIN LoadedPrimary) \cup IngestIds |->
                   IF k \in IngestIds
                   THEN Mapped(CHOOSE e \in files_to_add : Mapped(e).nerv = k).package
                   ELSE LoadedPrimary[k]]
           /\ filelists =
                [k \in (DOMAIN LoadedFilelists) \cup IngestIds |->
                   IF k \in IngestIds
                   THEN MappedFilelists(
                          CHOOSE e \in files_to_add : Mapped(e).nerv = k).package
                   ELSE LoadedFilelists[k]]

\* two archives with different identities were ingested, b.rpm first
C9_Witness ==
    /\ pc = "done"
    /\ out = <<BRpm, ARpm>>
    /\ Cardinality(IngestIds) = 2
    /\ Cardinality(DOMAIN primary) >= 2

\* C10: every primary record created from a storage entry (path, mtime)
\* records exactly that pair, so the Diff step on the index of a completed
\* run, against the same storage, yields an empty to-ingest set.
C10_Idempotent ==
    pc = "done" =>
      /\ \A e \in files_to_add :
           \A k \in DOMAIN primary :
             primary[k] = Mapped(e).package =>
               <<primary[k].location, FloatOfStr(primary[k].file_time)>> = e
      /\ ExistingFiles \ RecordedFiles(primary) = {}

=============================================================================
